---------------------------- MODULE Spec2Model ----------------------------
(***************************************************************************)
(* humanoid-rs: prefixed, human readable identifiers.                      *)
(*                                                                         *)
(* A u128 is modelled as the set of the positions of its 1 bits            *)
(* (0 = least significant), so that shifts drop the bits that leave the    *)
(* 128-bit register exactly as `<<=` and `>>` do.  A char is its code      *)
(* point, a string the sequence of its chars.                              *)
(***************************************************************************)
EXTENDS Integers, Sequences, FiniteSets, TLC

VARIABLES pc,      \* position of the caller: which call has returned
          tag,     \* P::VALUE of the PrefixedId in use, or NoTag for a bare body
          kind,    \* the body type T in use
          self,    \* the value being rendered (self.0)
          x,       \* the working register of Cb32u128's Display
          f,       \* the output written to the formatter so far
          input,   \* the string handed to a parser
          res,     \* the Result the call returned
          res2,    \* the Result of the second call of a two-call scenario
          pads     \* whether the Display of radix_fmt's Radix fills to the width
                   \* a format string asks for; the crate is outside this
                   \* repository, so both behaviours are kept

vars == <<pc, tag, kind, self, x, f, input, res, res2, pads>>

-----------------------------------------------------------------------------
(* Bounds of the model. *)

\* values rendered are m * 2^k (and their bitwise complements), m <= MaxMantissa
MaxMantissa == 5
\* longest run of one repeated character in the middle of a parsed string
MaxFill == 26

-----------------------------------------------------------------------------
(* u128 arithmetic on bit sets. *)

BITS == 128
DIGIT_BITS == 5
REM_BITS == BITS % DIGIT_BITS
REM_SHIFT == BITS - REM_BITS
DIGIT_SHIFT == BITS - DIGIT_BITS

Positions == 0 .. (BITS - 1)

\* the u128 whose value is the small natural n
U128(n) == {i \in 0 .. 30 : (n \div (2 ^ i)) % 2 = 1} \cap Positions

\* x << n and x >> n on a u128 (n < BITS)
Shl(v, n) == {i + n : i \in {j \in v : j + n < BITS}}
Shr(v, n) == {i - n : i \in {j \in v : j >= n}}
BitOr(v, w) == v \cup w
BitNot(v) == Positions \ v

\* x as usize, for the values the code converts (below 2^31 here)
RECURSIVE AsUsize(_)
AsUsize(v) ==
    IF v = {} THEN 0
    ELSE LET i == CHOOSE j \in v : TRUE
         IN  2 ^ i + AsUsize(v \ {i})

\* u128::leading_zeros
LeadingZeros(v) ==
    IF v = {} THEN BITS
    ELSE BITS - 1 - (CHOOSE i \in v : \A j \in v : j <= i)

STOP_BIT == Shl(U128(1), REM_SHIFT)

-----------------------------------------------------------------------------
(* Results. *)

Ok(v) == [ok |-> TRUE, val |-> v]
Err(e) == [ok |-> FALSE, err |-> e]

InvalidDigit(c) == [variant |-> "InvalidDigit", ch |-> c]
UnsupportedCheckDigit(c) == [variant |-> "UnsupportedCheckDigit", ch |-> c]

\* the prefix tag of the PrefixedId in use; none for a bare body
NoTag == [some |-> FALSE]
Tag(p) == [some |-> TRUE, value |-> p]
None == "None"

-----------------------------------------------------------------------------
(* cb32u128.rs: the tables. *)

\* '0'..'9', 'A'..'Z' without I, L, O, U
CROCKFORD_MAPPING ==
    << 48, 49, 50, 51, 52, 53, 54, 55, 56, 57,
       65, 66, 67, 68, 69, 70, 71, 72, 74, 75, 77, 78,
       80, 81, 82, 83, 84, 86, 87, 88, 89, 90 >>

Valid(d) == [entry |-> "Valid", digit |-> U128(d)]
CheckDigit == [entry |-> "CheckDigit"]
Invalid == [entry |-> "Invalid"]

\* the set!(...) lines of the table, in order: the chars and their entry
CrmDigits ==
    << [l |-> {48, 79, 111}, e |-> Valid(0)],          \* '0', 'O', 'o'
       [l |-> {49, 73, 105, 76, 108}, e |-> Valid(1)], \* '1', 'I', 'i', 'L', 'l'
       [l |-> {50}, e |-> Valid(2)],
       [l |-> {51}, e |-> Valid(3)],
       [l |-> {52}, e |-> Valid(4)],
       [l |-> {53}, e |-> Valid(5)],
       [l |-> {54}, e |-> Valid(6)],
       [l |-> {55}, e |-> Valid(7)],
       [l |-> {56}, e |-> Valid(8)],
       [l |-> {57}, e |-> Valid(9)],
       [l |-> {65, 97}, e |-> Valid(10)],               \* 'A', 'a'
       [l |-> {66, 98}, e |-> Valid(11)],
       [l |-> {67, 99}, e |-> Valid(12)],
       [l |-> {68, 100}, e |-> Valid(13)],
       [l |-> {69, 101}, e |-> Valid(14)],
       [l |-> {70, 102}, e |-> Valid(15)],
       [l |-> {71, 103}, e |-> Valid(16)],
       [l |-> {72, 104}, e |-> Valid(17)],
       [l |-> {74, 106}, e |-> Valid(18)],              \* 'J', 'j'
       [l |-> {75, 107}, e |-> Valid(19)],
       [l |-> {77, 109}, e |-> Valid(20)],              \* 'M', 'm'
       [l |-> {78, 110}, e |-> Valid(21)],
       [l |-> {80, 112}, e |-> Valid(22)],              \* 'P', 'p'
       [l |-> {81, 113}, e |-> Valid(23)],
       [l |-> {82, 114}, e |-> Valid(24)],
       [l |-> {83, 115}, e |-> Valid(25)],
       [l |-> {84, 116}, e |-> Valid(26)],
       [l |-> {86, 118}, e |-> Valid(27)],              \* 'V', 'v'
       [l |-> {87, 119}, e |-> Valid(28)],
       [l |-> {88, 120}, e |-> Valid(29)],
       [l |-> {89, 121}, e |-> Valid(30)],
       [l |-> {90, 122}, e |-> Valid(31)] >>            \* 'Z', 'z'

\* a table that rejects only the upper case 'U'
CrmCheckDigitsUpperOnly ==
    << [l |-> {42}, e |-> CheckDigit],
       [l |-> {126}, e |-> CheckDigit],
       [l |-> {36}, e |-> CheckDigit],
       [l |-> {61}, e |-> CheckDigit],
       [l |-> {85}, e |-> CheckDigit] >>

CrmCheckDigits ==
    << [l |-> {42}, e |-> CheckDigit],                  \* '*'
       [l |-> {126}, e |-> CheckDigit],                 \* '~'
       [l |-> {36}, e |-> CheckDigit],                  \* '$'
       [l |-> {61}, e |-> CheckDigit],                  \* '='
       [l |-> {85, 117}, e |-> CheckDigit] >>           \* 'U', 'u'

CrmAssignments == CrmDigits \o CrmCheckDigits

\* entries starts as [Invalid; 256]; of the set! lines that name a char the
\* last one stands
CROCKFORD_REVERSE_MAPPING ==
    [c \in 0 .. 255 |->
        LET hits == {n \in DOMAIN CrmAssignments : c \in CrmAssignments[n].l}
        IN  IF hits = {} THEN Invalid
            ELSE CrmAssignments[CHOOSE n \in hits : \A k \in hits : k <= n].e]

\* char::is_ascii
IsAscii(c) == c < 128

-----------------------------------------------------------------------------
(* cb32u128.rs: impl FromStr for Cb32u128. *)

\* the digit is or-ed in before the shift
PushDigitOrFirst(acc, d) == Shl(BitOr(acc, d), DIGIT_BITS)

\* res <<= DIGIT_BITS; res |= digit_value
PushDigit(acc, d) == BitOr(Shl(acc, DIGIT_BITS), d)

\* the for loop over the first n chars: an Err returned at an earlier char
\* stands, else the n-th char is looked up and pushed onto res
RECURSIVE CbFromStrLoop(_, _)
CbFromStrLoop(s, n) ==
    IF n = 0 THEN Ok(U128(0))
    ELSE LET r == CbFromStrLoop(s, n - 1)
             c == s[n]
         IN  IF ~r.ok THEN r
             ELSE IF ~IsAscii(c) THEN Err(InvalidDigit(c))
             ELSE LET e == CROCKFORD_REVERSE_MAPPING[c] IN
                  CASE e.entry = "Valid" -> Ok(PushDigit(r.val, e.digit))
                    [] e.entry = "CheckDigit" -> Err(UnsupportedCheckDigit(c))
                    [] e.entry = "Invalid" -> Err(InvalidDigit(c))

CbFromStr(s) == CbFromStrLoop(s, Len(s))

-----------------------------------------------------------------------------
(* cb32u128.rs: impl Display for Cb32u128. *)

\* rounds up instead of down
RoundUpToMultipleOfDigitBits(n) ==
    ((n + DIGIT_BITS - 1) \div DIGIT_BITS) * DIGIT_BITS

RoundToMultipleOfDigitBits(n) == (n \div DIGIT_BITS) * DIGIT_BITS

\* lines 30-55: up to the while loop; buf is what the formatter already holds
CbFmtEnter(v, buf) ==
    IF v = U128(0)
    THEN [x |-> v, f |-> Append(buf, CROCKFORD_MAPPING[0 + 1]), pc |-> "fmt_done"]
    ELSE LET i == AsUsize(Shr(v, REM_SHIFT))
             y == BitOr(Shl(v, REM_BITS), U128(1))
         IN  IF i = 0
             THEN [x |-> Shl(y, RoundToMultipleOfDigitBits(LeadingZeros(y))),
                   f |-> buf, pc |-> "fmt_loop"]
             ELSE [x |-> y, f |-> Append(buf, CROCKFORD_MAPPING[i + 1]),
                   pc |-> "fmt_loop"]

\* the values handed to Display
CbValues ==
    LET base == {Shl(U128(m), k) : m \in 0 .. MaxMantissa, k \in Positions}
    IN  base \cup {BitNot(v) : v \in base}

\* Cb32u128(v).to_string(): Display starts on an empty formatter
CbFmt ==
    /\ pc = "idle"
    /\ \E v \in CbValues :
         LET st == CbFmtEnter(v, << >>) IN
         /\ self' = v
         /\ x' = st.x
         /\ f' = st.f
         /\ pc' = st.pc
    /\ tag' = NoTag
    /\ kind' = "Cb32u128"
    /\ UNCHANGED <<input, res, res2, pads>>

\* one turn of `while x != STOP_BIT`
CbFmtLoopBody ==
    /\ pc = "fmt_loop"
    /\ x # STOP_BIT
    /\ LET i == AsUsize(Shr(x, DIGIT_SHIFT)) IN
         f' = Append(f, CROCKFORD_MAPPING[i + 1])
    /\ x' = Shl(x, DIGIT_BITS)
    /\ UNCHANGED <<pc, tag, kind, self, input, res, res2, pads>>

\* the loop test fails: Ok(())
CbFmtLoopExit ==
    /\ pc = "fmt_loop"
    /\ x = STOP_BIT
    /\ pc' = "fmt_done"
    /\ UNCHANGED <<tag, kind, self, x, f, input, res, res2, pads>>

-----------------------------------------------------------------------------
(* The strings handed to the parsers. *)

\* '0' '1' '7' '8' 'Z' 'z' 'O' 'i' 'L' 'a' 'U' 'u' '*' '~' '$' '=' '/' ' ' '_' '+'
\* U+00E9, U+0105, U+1F480
SampleChars ==
    {48, 49, 55, 56, 90, 122, 79, 105, 76, 97, 85, 117, 42, 126, 36, 61,
     47, 32, 95, 43, 233, 261, 128128}

FillChars == {48, 90, 42}

Repeat(c, n) == [i \in 1 .. n |-> c]

OptChar == {<< >>} \cup {<<c>> : c \in SampleChars}

\* at most one sample char, a run of one fill char, at most one sample char;
\* and every one-byte char behind a run of '1', 2 and 24 chars long
SampleStrings ==
    {h \o Repeat(c, n) \o t : h \in OptChar, t \in OptChar,
                              c \in FillChars, n \in 0 .. MaxFill}
    \cup {Repeat(49, n) \o <<c>> : c \in 0 .. 255, n \in {1, 23}}

\* "...".parse::<Cb32u128>()
CbParse ==
    /\ pc = "idle"
    /\ \E s \in SampleStrings :
         /\ input' = s
         /\ res' = CbFromStr(s)
    /\ pc' = "parsed"
    /\ tag' = NoTag
    /\ kind' = "Cb32u128"
    /\ UNCHANGED <<self, x, f, res2, pads>>

\* the rendered text is parsed back
ParseRendered ==
    /\ pc = "fmt_done"
    /\ ~tag.some
    /\ kind = "Cb32u128"
    /\ input' = f
    /\ res' = CbFromStr(f)
    /\ pc' = "reparsed"
    /\ UNCHANGED <<tag, kind, self, x, f, res2, pads>>

-----------------------------------------------------------------------------
(* cuid2.rs.  The u128 of a Cuid2 is held as 8 limbs of 16 bits, least     *)
(* significant first, so that the base-36 arithmetic stays in range.      *)

LimbBase == 256 * 256
NumLimbs == BITS \div 16

Limbs(n) == [i \in 1 .. NumLimbs |-> IF i = 1 THEN n ELSE 0]

\* the limbs of v * m + a, followed by the carry out of the u128
RECURSIVE MulAddLimbs(_, _, _, _)
MulAddLimbs(v, i, m, carry) ==
    IF i > Len(v) THEN <<carry>>
    ELSE LET t == v[i] * m + carry
         IN  <<t % LimbBase>> \o MulAddLimbs(v, i + 1, m, t \div LimbBase)

\* checked_mul(m) then checked_add(a): None on overflow
CheckedMulAdd(v, m, a) ==
    LET r == MulAddLimbs(v, 1, m, a)
    IN  IF r[NumLimbs + 1] # 0 THEN [some |-> FALSE]
        ELSE [some |-> TRUE, value |-> SubSeq(r, 1, NumLimbs)]

\* v / d and v % d, from the most significant limb down
RECURSIVE DivModLimbs(_, _, _, _, _)
DivModLimbs(v, i, d, rem, q) ==
    IF i = 0 THEN [q |-> q, r |-> rem]
    ELSE LET cur == rem * LimbBase + v[i]
         IN  DivModLimbs(v, i - 1, d, cur % d, [q EXCEPT ![i] = cur \div d])

DivMod(v, d) == DivModLimbs(v, Len(v), d, 0, v)

\* char::to_digit(36)
ToDigit36(c) ==
    IF c \in 48 .. 57 THEN [some |-> TRUE, value |-> c - 48]
    ELSE IF c \in 97 .. 122 THEN [some |-> TRUE, value |-> c - 97 + 10]
    ELSE IF c \in 65 .. 90 THEN [some |-> TRUE, value |-> c - 65 + 10]
    ELSE [some |-> FALSE]

RECURSIVE FromStrRadix36Loop(_, _, _)
FromStrRadix36Loop(s, i, acc) ==
    IF i > Len(s) THEN Ok(acc)
    ELSE LET d == ToDigit36(s[i]) IN
         IF ~d.some THEN Err([variant |-> "InvalidDigit"])
         ELSE LET n == CheckedMulAdd(acc, 36, d.value) IN
              IF ~n.some THEN Err([variant |-> "PosOverflow"])
              ELSE FromStrRadix36Loop(s, i + 1, n.value)

\* u128::from_str_radix(s, 36): an optional '+', then digits 0-9, a-z, A-Z;
\* a '-' is no sign of an unsigned type and fails as a digit
FromStrRadix36(s) ==
    IF Len(s) = 0 THEN Err([variant |-> "Empty"])
    ELSE IF s[1] \in {43, 45} /\ Len(s) = 1 THEN Err([variant |-> "InvalidDigit"])
    ELSE IF s[1] = 43 THEN FromStrRadix36Loop(s, 2, Limbs(0))
    ELSE FromStrRadix36Loop(s, 1, Limbs(0))

\* the number of bytes of a char in UTF-8
Utf8Len(c) == IF c < 128 THEN 1 ELSE IF c < 2048 THEN 2 ELSE IF c < 65536 THEN 3 ELSE 4

\* str::len: the length in bytes, n for each char of n bytes
StrLen(s) ==
    LET Count(n) == Cardinality({k \in DOMAIN s : Utf8Len(s[k]) = n})
    IN  Count(1) + 2 * Count(2) + 3 * Count(3) + 4 * Count(4)

WrongLength == [variant |-> "WrongLength"]
IllegalCharacter == [variant |-> "IllegalCharacter"]

\* impl FromStr for Cuid2
Cuid2FromStr(s) ==
    IF StrLen(s) # 24 THEN Err(WrongLength)
    ELSE LET r == FromStrRadix36(s) IN
         IF r.ok THEN Ok(r.val) ELSE Err(IllegalCharacter)

Digit36Char(d) == IF d < 10 THEN 48 + d ELSE 97 + d - 10

\* radix_36(v) written with "{}": the base-36 digits of v, lower case, "0" for 0
RECURSIVE Radix36(_)
Radix36(v) ==
    LET dm == DivMod(v, 36) IN
    IF dm.q = Limbs(0) THEN <<Digit36Char(dm.r)>>
    ELSE Radix36(dm.q) \o <<Digit36Char(dm.r)>>

\* impl Display for Cuid2
Cuid2Fmt(v) == Radix36(v)

\* "...".parse::<Cuid2>()
Cuid2Parse ==
    /\ pc = "idle"
    /\ \E s \in SampleStrings :
         /\ input' = s
         /\ res' = Cuid2FromStr(s)
    /\ pc' = "parsed"
    /\ tag' = NoTag
    /\ kind' = "Cuid2"
    /\ UNCHANGED <<self, x, f, res2, pads>>

\* the parsed Cuid2 is written with Display
Cuid2Display ==
    /\ pc = "parsed"
    /\ ~tag.some
    /\ kind = "Cuid2"
    /\ res.ok
    /\ self' = res.val
    /\ f' = Cuid2Fmt(res.val)
    /\ pc' = "displayed"
    /\ UNCHANGED <<tag, kind, x, input, res, res2, pads>>

-----------------------------------------------------------------------------
(* cuid2.rs: pseudo_cuid2_from_rng. *)

\* 64-bit words, as 4 limbs: the hasher's digest and the random draw
TopLimbs == {0, 1, 3, 4, 100, 4095, 5000, 65535}
U64Samples == {<<l, l, l, d>> : l \in {0, 65535}, d \in TopLimbs}

\* 'a', 'm', 'z' of "abcdefghijklmnopqrstuvwxyz"
FirstLetters == {97, 109, 122}

\* u128::from_ne_bytes(transmute([hi, lo])): hi has the lower address
FromNeBytes(hi, lo, littleEndian) ==
    IF littleEndian THEN hi \o lo ELSE lo \o hi

\* "{:0>23}": filled with '0' on the left up to 23 chars
PadLeft23(s) == IF Len(s) >= 23 THEN s ELSE Repeat(48, 23 - Len(s)) \o s

\* String::truncate(24) of an ASCII string
Truncate24(s) == IF Len(s) <= 24 THEN s ELSE SubSeq(s, 1, 24)

\* lines 73-75: the buffer after write! and truncate
GenBuffer(letter, v, widthApplies) ==
    Truncate24(<<letter>> \o
               (IF widthApplies THEN PadLeft23(Radix36(v)) ELSE Radix36(v)))

\* pseudo_cuid2_from_rng: the digest hi, the draw lo and the letter are inputs
Cuid2Generate ==
    /\ pc = "idle"
    /\ \E hi \in U64Samples, lo \in U64Samples, letter \in FirstLetters,
          littleEndian \in BOOLEAN, widthApplies \in BOOLEAN :
         LET buffer == GenBuffer(letter, FromNeBytes(hi, lo, littleEndian),
                                 widthApplies)
             r == FromStrRadix36(buffer)
         IN  /\ pads' = widthApplies
             /\ input' = buffer
             /\ res' = r
             /\ IF r.ok THEN pc' = "generated" /\ self' = r.val
                ELSE pc' = "panicked" /\ self' = self   \* unwrap() of an Err
    /\ tag' = NoTag
    /\ kind' = "Cuid2"
    /\ UNCHANGED <<x, f, res2>>

\* the generated Cuid2 is written with Display
Cuid2GenDisplay ==
    /\ pc = "generated"
    /\ f' = Cuid2Fmt(self)
    /\ pc' = "gen_displayed"
    /\ UNCHANGED <<tag, kind, self, x, input, res, res2, pads>>

-----------------------------------------------------------------------------
(* lib.rs: PrefixedId<P, T>. *)

\* the front of s is cut off without being compared with p
StripPrefixUnchecked(s, p) ==
    IF Len(s) >= Len(p)
    THEN [some |-> TRUE, value |-> SubSeq(s, Len(p) + 1, Len(s))]
    ELSE [some |-> FALSE]

\* str::strip_prefix
StripPrefix(s, p) ==
    IF Len(s) >= Len(p) /\ SubSeq(s, 1, Len(p)) = p
    THEN [some |-> TRUE, value |-> SubSeq(s, Len(p) + 1, Len(s))]
    ELSE [some |-> FALSE]

UnwrapOr(o, d) == IF o.some THEN o.value ELSE d

\* PrefixedId(id, PhantomData<P>): P is part of the type
PrefixedId(p, id) == [prefix |-> p, id |-> id]

FromId(p, id) == PrefixedId(p, id)

NoPrefix(p) == [variant |-> "NoPrefix", prefix |-> p]
NoUnderscore == [variant |-> "NoUnderscore"]
Other(e) == [variant |-> "Other", source |-> e]

\* T::from_str for the body types in use; String::from_str never fails
BodyFromStr(k, s) ==
    CASE k = "String" -> Ok(s)
      [] k = "Cb32u128" -> CbFromStr(s)
      [] k = "Cuid2" -> Cuid2FromStr(s)

\* the underscore is looked for in the whole input, not behind the prefix
FromStrRequiredPrefixKeepPrefix(p, k, s) ==
    LET a == StripPrefix(s, p) IN
    IF ~a.some THEN Err(NoPrefix(p))
    ELSE LET b == StripPrefix(s, <<95>>) IN
         IF ~b.some THEN Err(NoUnderscore)
         ELSE LET t == BodyFromStr(k, b.value) IN
              IF t.ok THEN Ok(PrefixedId(p, t.val)) ELSE Err(Other(t.err))

\* PrefixedId::from_str_required_prefix
FromStrRequiredPrefix(p, k, s) ==
    LET a == StripPrefix(s, p) IN
    IF ~a.some THEN Err(NoPrefix(p))
    ELSE LET b == StripPrefix(a.value, <<95>>) IN
         IF ~b.some THEN Err(NoUnderscore)
         ELSE LET t == BodyFromStr(k, b.value) IN
              IF t.ok THEN Ok(PrefixedId(p, t.val)) ELSE Err(Other(t.err))

\* the prefix is stripped, the underscore is not
FromStrOptionalPrefixKeepUnderscore(p, k, s) ==
    LET a == UnwrapOr(StripPrefix(s, p), s)
        t == BodyFromStr(k, a)
    IN  IF t.ok THEN Ok(PrefixedId(p, t.val)) ELSE Err(t.err)

\* PrefixedId::from_str_optional_prefix
FromStrOptionalPrefix(p, k, s) ==
    LET a == UnwrapOr(StripPrefix(s, p), s)
        b == UnwrapOr(StripPrefix(a, <<95>>), a)
        t == BodyFromStr(k, b)
    IN  IF t.ok THEN Ok(PrefixedId(p, t.val)) ELSE Err(t.err)

\* the prefix tags in use
Prefixes ==
    { <<99, 117, 115>>,     \* "cus"
      <<99>>,               \* "c"
      <<97, 95>>,           \* "a_"
      << >> }               \* ""

\* texts in the place of a body
BodyTexts ==
    {
      << >>,                                                       \* ""
      <<49, 50, 51, 52>>,                                          \* "1234"
      <<120, 121, 122>>,                                           \* "xyz"
      <<50, 49, 51, 55, 80, 65, 80, 65>>,                          \* "2137PAPA"
      <<52, 50, 48, 54, 57, 42>>,                                  \* "42069*"
      <<47>>,                                                      \* "/"
      <<48>>,                                                      \* "0"
      <<49, 48>>,                                                  \* "10"
      <<90, 48>>,                                                  \* "Z0"
      <<55, 90, 90, 90, 90, 90, 90, 90, 90, 90, 90, 90, 90, 90, 90, 90, 90, 90, 90, 90, 90, 90, 90, 90, 90, 90>>, \* "7ZZZZZZZZZZZZZZZZZZZZZZZZZ"
      <<49, 50, 51, 52, 53, 54, 55, 56, 57, 48, 49, 50, 51, 52, 53, 54, 55, 56, 57, 48, 49, 50, 51, 52>>, \* "123456789012345678901234"
      <<49, 50, 51, 52, 53, 54, 55, 56, 57, 48, 49, 50, 51, 52, 53, 54, 55, 56, 57, 48, 49, 50, 51>>, \* "12345678901234567890123"
      <<43, 48, 48, 48, 48, 48, 48, 48, 48, 48, 48, 48, 48, 48, 48, 48, 48, 48, 48, 48, 48, 48, 48, 49>>, \* "+00000000000000000000001"
      <<49, 50, 51, 52, 53, 54, 55, 56, 57, 48, 49, 50, 51, 52, 53, 54, 55, 56, 57, 48, 49, 50, 51, 33>> \* "12345678901234567890123!"
    }

\* texts that begin like a prefix or an underscore
XyzTexts ==
    BodyTexts \cup
    {
      <<95, 97, 98, 99>>,                                          \* "_abc"
      <<95>>,                                                      \* "_"
      <<99, 117, 115, 95, 49, 50, 51, 52>>,                        \* "cus_1234"
      <<99, 117, 115, 120, 121, 122>>,                             \* "cusxyz"
      <<99, 117, 115>>,                                            \* "cus"
      <<99>>,                                                      \* "c"
      <<99, 95, 49>>,                                              \* "c_1"
      <<97, 95, 95, 49>>,                                          \* "a__1"
      <<95, 95, 120>>                                              \* "__x"
    }

\* what stands in front of the body in the inputs of the required parse
Fronts ==
    Prefixes \cup
    { <<111, 116, 104, 101, 114>>,      \* "other"
      <<99, 117>> }                      \* "cu"

Separators == { << >>, <<95>>, <<95, 95>>, <<45>> }

PidInputs == {p \o u \o b : p \in Fronts, u \in Separators, b \in BodyTexts}

BodyKinds == {"String", "Cb32u128", "Cuid2"}

\* the Cb32u128 bodies rendered behind a prefix
PidCbValues == {v \in CbValues : Cardinality(v) <= 1 \/ v = BitNot(U128(0))}

\* PrefixedId<P, String>::from_id(b).to_string(): "{}_{}" of P::VALUE and the body
PidFmtString ==
    /\ pc = "idle"
    /\ \E p \in Prefixes, b \in XyzTexts :
         /\ tag' = Tag(p)
         /\ self' = b
         /\ f' = p \o <<95>> \o b
    /\ kind' = "String"
    /\ pc' = "fmt_done"
    /\ UNCHANGED <<x, input, res, res2, pads>>

\* PrefixedId<P, Cb32u128>::from_id(v).to_string(): P::VALUE and '_' are written,
\* then the body's Display runs on the same formatter
PidFmtCb ==
    /\ pc = "idle"
    /\ \E p \in Prefixes, v \in PidCbValues :
         LET st == CbFmtEnter(v, p \o <<95>>) IN
         /\ tag' = Tag(p)
         /\ self' = v
         /\ x' = st.x
         /\ f' = st.f
         /\ pc' = st.pc
    /\ kind' = "Cb32u128"
    /\ UNCHANGED <<input, res, res2, pads>>

\* the rendered text goes through from_str_required_prefix
PidParseRendered ==
    /\ pc = "fmt_done"
    /\ tag.some
    /\ input' = f
    /\ res' = FromStrRequiredPrefix(tag.value, kind, f)
    /\ pc' = "reparsed"
    /\ UNCHANGED <<tag, kind, self, x, f, res2, pads>>

\* PrefixedId::<P, T>::from_str_required_prefix(s)
PidParseRequired ==
    /\ pc = "idle"
    /\ \E p \in Prefixes, k \in BodyKinds, s \in PidInputs :
         /\ tag' = Tag(p)
         /\ kind' = k
         /\ input' = s
         /\ res' = FromStrRequiredPrefix(p, k, s)
    /\ pc' = "parsed"
    /\ UNCHANGED <<self, x, f, res2, pads>>

\* from_str_optional_prefix("<P>_xyz") and from_str_optional_prefix("xyz")
PidParseOptional ==
    /\ pc = "idle"
    /\ \E p \in Prefixes, k \in BodyKinds, xyz \in XyzTexts :
         /\ tag' = Tag(p)
         /\ kind' = k
         /\ input' = xyz
         /\ res' = FromStrOptionalPrefix(p, k, p \o <<95>> \o xyz)
         /\ res2' = FromStrOptionalPrefix(p, k, xyz)
    /\ pc' = "parsed_optional"
    /\ UNCHANGED <<self, x, f, pads>>

-----------------------------------------------------------------------------

Init ==
    /\ pc = "idle"
    /\ tag = NoTag
    /\ kind = None
    /\ self = None
    /\ x = U128(0)
    /\ f = << >>
    /\ input = << >>
    /\ res = None
    /\ res2 = None
    /\ pads = FALSE

\* the Crockford codec on its own
NextCb ==
    \/ CbFmt
    \/ CbFmtLoopBody
    \/ CbFmtLoopExit
    \/ CbParse
    \/ ParseRendered

SpecCb == Init /\ [][NextCb]_vars

\* the Cuid2 codec on its own
NextCuid ==
    \/ Cuid2Parse
    \/ Cuid2Display
    \/ Cuid2Generate
    \/ Cuid2GenDisplay

SpecCuid == Init /\ [][NextCuid]_vars

\* PrefixedId over the body types
NextPid ==
    \/ PidFmtString
    \/ PidFmtCb
    \/ CbFmtLoopBody
    \/ CbFmtLoopExit
    \/ PidParseRendered
    \/ PidParseRequired
    \/ PidParseOptional

SpecPid == Init /\ [][NextPid]_vars

Next ==
    \/ NextCb
    \/ NextCuid
    \/ NextPid

Spec == Init /\ [][Next]_vars

-----------------------------------------------------------------------------
(* What the claims speak of. *)

\* the alphabet 0123456789ABCDEFGHJKMNPQRSTVWXYZ
Alphabet ==
    << 48, 49, 50, 51, 52, 53, 54, 55, 56, 57,
       65, 66, 67, 68, 69, 70, 71, 72, 74, 75, 77, 78,
       80, 81, 82, 83, 84, 86, 87, 88, 89, 90 >>

AlphabetChars == {Alphabet[i] : i \in DOMAIN Alphabet}

\* a char read case-insensitively, with O as 0 and I, L as 1
Canon(c) ==
    LET u == IF c \in 97 .. 122 THEN c - 32 ELSE c
    IN  IF u = 79 THEN 48 ELSE IF u \in {73, 76} THEN 49 ELSE u

IsDigitOrAlias(c) == Canon(c) \in AlphabetChars

\* the value 0..31 of a digit or alias
DigitValue(c) == (CHOOSE i \in DOMAIN Alphabet : Alphabet[i] = Canon(c)) - 1

\* the 1 bits of the base-32 value of s, high digit first: digit k of n digits
\* weighs 32^(n-k); the positions are not cut at 128
Base32Bits(s) ==
    UNION {{DIGIT_BITS * (Len(s) - k) + j : j \in U128(DigitValue(s[k]))} :
           k \in DOMAIN s}

AllDigits(s) == \A k \in DOMAIN s : IsDigitOrAlias(s[k])

BareCb == ~tag.some /\ kind = "Cb32u128"

\* the number of base-32 digits of a nonzero v
NumDigits(v) == (BITS - 1 - LeadingZeros(v)) \div DIGIT_BITS + 1

LowestBit(v) == CHOOSE i \in v : \A j \in v : i <= j

(* C1: the text Display writes for Cb32u128(v) parses, and parses to      *)
(* Cb32u128(v).                                                           *)
C1_RoundTrip ==
    (pc = "reparsed" /\ BareCb) => res = Ok(self)

C1_Witness ==
    /\ pc = "reparsed" /\ BareCb
    /\ self = BitNot(U128(0))
    /\ res = Ok(self)

(* C2: Display writes the canonical text: only alphabet chars, base-32    *)
(* value v, 1 to 26 chars, no leading '0' unless the text is "0"; and the  *)
(* loop ends: the sentinel is the lowest 1 bit of x, it stays a whole      *)
(* number of digits below the stop position, and the digits written plus  *)
(* the digits still to write are the digits of v.                         *)
C2_Canonical ==
    /\ (pc \in {"fmt_done", "reparsed"} /\ BareCb) =>
          /\ \A k \in DOMAIN f : f[k] \in AlphabetChars
          /\ Base32Bits(f) = self
          /\ Len(f) >= 1 /\ Len(f) <= 26
          /\ (f[1] = 48 => f = <<48>>)
          /\ (self = U128(0) => f = <<48>>)
    /\ (pc = "fmt_loop" /\ BareCb) =>
          /\ x # U128(0)
          /\ LowestBit(x) <= REM_SHIFT
          /\ (REM_SHIFT - LowestBit(x)) % DIGIT_BITS = 0
          /\ Len(f) + (REM_SHIFT - LowestBit(x)) \div DIGIT_BITS = NumDigits(self)

C2_Witness ==
    /\ pc = "fmt_done" /\ BareCb
    /\ self = U128(32)
    /\ f = <<49, 48>>

(* C8: the first char that is no digit and no alias decides: a check      *)
(* digit char gives UnsupportedCheckDigit of it, any other char gives     *)
(* InvalidDigit of it; the parse succeeds only when there is none.        *)
C8_Rejection ==
    (pc = "parsed" /\ BareCb) =>
        LET bad == {k \in DOMAIN input : ~IsDigitOrAlias(input[k])} IN
        IF bad = {} THEN res.ok
        ELSE LET c == input[CHOOSE k \in bad : \A j \in bad : k <= j] IN
             IF c \in {42, 126, 36, 61, 85, 117}
             THEN res = Err(UnsupportedCheckDigit(c))
             ELSE res = Err(InvalidDigit(c))

C8_Witness ==
    /\ pc = "parsed" /\ BareCb
    /\ Len(input) >= 3
    /\ input[1] = 117
    /\ input[Len(input)] = 128128
    /\ res = Err(UnsupportedCheckDigit(117))

(* C10 as stated: every string of at most 26 valid digits parses to       *)
(* exactly its base-32 value.                                             *)
C10_NoWrapUpTo26 ==
    (pc = "parsed" /\ BareCb /\ AllDigits(input) /\ Len(input) <= 26) =>
        res = Ok(Base32Bits(input))

(* C10 amended: a string of valid digits parses to its base-32 value      *)
(* modulo 2^128; that is exactly its value when it has at most 25 digits, *)
(* or 26 digits of which the first is at most 7.                          *)
C10_WrapsFrom26 ==
    (pc = "parsed" /\ BareCb /\ AllDigits(input)) =>
        /\ res = Ok(Base32Bits(input) \cap Positions)
        /\ (Len(input) <= 25 \/ (Len(input) = 26 /\ DigitValue(input[1]) <= 7)) =>
               res = Ok(Base32Bits(input))

C10_Witness ==
    /\ pc = "parsed" /\ BareCb /\ AllDigits(input)
    /\ Len(input) = 26
    /\ input[1] = 55
    /\ res = Ok(Base32Bits(input))
    /\ res.val # U128(0)

-----------------------------------------------------------------------------
(* Cuid2. *)

BareCuid == ~tag.some /\ kind = "Cuid2"

IsBase36(c) == c \in (48 .. 57) \cup (65 .. 90) \cup (97 .. 122)
IsLowerBase36(c) == c \in (48 .. 57) \cup (97 .. 122)

(* C4 as stated, for the inputs of 24 chars 0-9, A-Z, a-z:                 *)
(* a parsed Cuid2 renders as 24 chars, the base-36 digits                  *)
(* of the stored value behind as many '0' as it takes, so a parsed lower  *)
(* case string renders as itself.                                         *)
C4_Render24 ==
    (pc = "displayed" /\ BareCuid /\ \A k \in DOMAIN input : IsBase36(input[k])) =>
        /\ Len(f) = 24
        /\ \A k \in DOMAIN f : IsLowerBase36(f[k])
        /\ FromStrRadix36(f) = Ok(self)
        /\ (\A k \in DOMAIN input : IsLowerBase36(input[k])) => f = input

(* C5 as stated: the parse succeeds exactly when the input is 24 long     *)
(* and every char is one of 0-9, A-Z, a-z; another length gives           *)
(* WrongLength, a 24 long input with another char IllegalCharacter.       *)
C5_Acceptance ==
    (pc = "parsed" /\ BareCuid) =>
        LET allBase36 == \A k \in DOMAIN input : IsBase36(input[k]) IN
        /\ res.ok <=> (StrLen(input) = 24 /\ allBase36)
        /\ StrLen(input) # 24 => res = Err(WrongLength)
        /\ (StrLen(input) = 24 /\ ~allBase36) => res = Err(IllegalCharacter)

-----------------------------------------------------------------------------
(* PrefixedId. *)

(* C3: the text "<P>_" followed by the rendered body, handed to           *)
(* from_str_required_prefix, gives Ok(from_id(b)), for String and         *)
(* Cb32u128 bodies.                                                       *)
C3_RequiredRoundTrip ==
    (pc = "reparsed" /\ tag.some /\ kind \in {"String", "Cb32u128"}) =>
        /\ SubSeq(input, 1, Len(tag.value) + 1) = tag.value \o <<95>>
        /\ res = Ok(FromId(tag.value, self))

C3_Witness ==
    /\ pc = "reparsed" /\ tag.some /\ kind = "Cb32u128"
    /\ tag.value = <<99, 117, 115>>
    /\ Len(input) = 4 + 26
    /\ res = Ok(FromId(tag.value, self))

(* C7 as stated: for every prefix P and every text xyz, the optional      *)
(* parse of "<P>_xyz" and of "xyz" give the same result, the one of       *)
(* parsing xyz as the body.                                               *)
C7_PrefixInsensitive ==
    pc = "parsed_optional" =>
        /\ res = res2
        /\ LET t == BodyFromStr(kind, input) IN
           res = IF t.ok THEN Ok(FromId(tag.value, t.val)) ELSE Err(t.err)

\* xyz begins with a nonempty P or with '_'
BeginsLikePrefix(p, s) ==
    \/ (p # << >> /\ Len(s) >= Len(p) /\ SubSeq(s, 1, Len(p)) = p)
    \/ (Len(s) >= 1 /\ s[1] = 95)

(* C7 amended: the same, for every text xyz that begins neither with a    *)
(* nonempty P nor with '_'.                                               *)
C7_PrefixInsensitiveAmended ==
    (pc = "parsed_optional" /\ ~BeginsLikePrefix(tag.value, input)) =>
        /\ res = res2
        /\ LET t == BodyFromStr(kind, input) IN
           res = IF t.ok THEN Ok(FromId(tag.value, t.val)) ELSE Err(t.err)

C7_Witness ==
    /\ pc = "parsed_optional" /\ kind = "String"
    /\ tag.value = <<99, 117, 115>>
    /\ input = <<49, 50, 51, 52>>
    /\ res = Ok(FromId(tag.value, input))
    /\ res2 = res

(* C9: the required parse fails with NoPrefix(P) when the input does not  *)
(* begin with P, else with NoUnderscore when the char behind P is not     *)
(* '_', else it hands exactly the rest behind "<P>_" to the body parser   *)
(* and gives its error as Other, or the wrapped body.                     *)
C9_RequiredErrors ==
    (pc = "parsed" /\ tag.some) =>
        LET p == tag.value
            n == Len(p)
        IN  IF ~(Len(input) >= n /\ \A i \in 1 .. n : input[i] = p[i])
            THEN res = Err(NoPrefix(p))
            ELSE IF ~(Len(input) >= n + 1 /\ input[n + 1] = 95)
            THEN res = Err(NoUnderscore)
            ELSE LET t == BodyFromStr(kind, [i \in 1 .. (Len(input) - n - 1) |-> input[i + n + 1]])
                 IN  IF t.ok THEN res = Ok(PrefixedId(p, t.val))
                     ELSE res = Err(Other(t.err))

C9_Witness ==
    /\ pc = "parsed" /\ tag.some /\ kind = "Cb32u128"
    /\ tag.value = <<99, 117, 115>>
    /\ input = <<99, 117, 115, 95, 52, 50, 48, 54, 57, 42>>
    /\ res = Err(Other(UnsupportedCheckDigit(42)))

=============================================================================
